---- MODULE Spec2Model ----
(***************************************************************************)
(* Upload pipeline of the versioning system: POST /api/upload (the         *)
(* size-routing handler, src/src/routes/api/upload/+server.ts:513-924),    *)
(* the catalog tables and the update_latest_version trigger                *)
(* (src/supabase/migrations), the Supabase Storage bucket and the MEGA     *)
(* account.  Every await of the handler that touches shared state is one   *)
(* action; several requests interleave at these points.  The home page     *)
(* (load, src/src/routes/+page.server.ts:42-124) reads the catalog.        *)
(*                                                                         *)
(* Strings are sequences of one-character strings, so that trim(), the     *)
(* two regular expressions and the path concatenations are computed as     *)
(* the code computes them.  An absent value (null / undefined) is the      *)
(* empty sequence of an "optional" one-element sequence.                   *)
(***************************************************************************)
EXTENDS Integers, Sequences, FiniteSets, TLC

\* ------------------------------------------------------------------------
\* Bounds of the model
\* ------------------------------------------------------------------------
\* number of upload requests that arrive
NumReq == 2
\* number of backend calls (database, storage) that may fail for reasons
\* of their own (network, outage)
MaxFaults == 1
\* readings of the database clock (microsecond resolution) that fall into
\* one millisecond
TicksPerMillisecond == 2

\* ------------------------------------------------------------------------
\* Program constants
\* ------------------------------------------------------------------------
MAX_FILE_SIZE_BYTES == 104857600
SUPABASE_OBJECT_SIZE_LIMIT_BYTES == 52428800
STORAGE_BUCKET == <<"files">>

Alnum == {"a", "b", "f", "g", "k", "x", "1", "2"}
FileNameChars == Alnum \cup {"_", "-"}
VersionChars == Alnum \cup {".", "_", "-"}

\* ------------------------------------------------------------------------
\* String helpers
\* ------------------------------------------------------------------------
RECURSIVE trimStart(_)
trimStart(s) ==
    IF s # <<>> /\ Head(s) = " " THEN trimStart(Tail(s)) ELSE s

RECURSIVE trimEnd(_)
trimEnd(s) ==
    IF s # <<>> /\ s[Len(s)] = " " THEN trimEnd(SubSeq(s, 1, Len(s) - 1)) ELSE s

\* String.prototype.trim
trim(s) == trimEnd(trimStart(s))

\* /^[A-Za-z0-9_-]+$/.test(s)
FILE_NAME_REGEX(s) == Len(s) >= 1 /\ \A i \in 1..Len(s) : s[i] \in FileNameChars

\* /^[A-Za-z0-9._-]+$/.test(s)
VERSION_REGEX(s) == Len(s) >= 1 /\ \A i \in 1..Len(s) : s[i] \in VersionChars

\* s.startsWith(p)
startsWith(s, p) == Len(s) >= Len(p) /\ SubSeq(s, 1, Len(p)) = p

\* s.replace(p, '') : the first occurrence of p is removed
RECURSIVE replaceFirst(_, _)
replaceFirst(s, p) ==
    IF Len(s) < Len(p) THEN s
    ELSE IF startsWith(s, p) THEN SubSeq(s, Len(p) + 1, Len(s))
    ELSE <<Head(s)>> \o replaceFirst(Tail(s), p)

\* an optional value: <<>> is null / undefined, <<v>> is v
Some(v) == <<v>>
None == <<>>

\* ------------------------------------------------------------------------
\* Requests
\* ------------------------------------------------------------------------
\* A request: the Authorization header and the four form fields, each
\* optional.  file is a File with a name and a size.
Request(authorization, file, fileName, version, metadata) ==
    [authorization |-> authorization, file |-> file, fileName |-> fileName,
     version |-> version, metadata |-> metadata]

File(name, size, type) == Some([name |-> name, size |-> size, type |-> type])

Bearer(secret) == Some(<<"Bearer", " ">> \o secret)

NoRequest == Request(None, None, None, None, None)

\* JSON.parse of the metadata texts the model sends: the kind of value the
\* text parses to, "invalid" when JSON.parse throws.  Surrounding white
\* space is skipped by the parser.
JSONparse(text) ==
    LET t == trim(text) IN
    IF t = <<"{", "}">> THEN [kind |-> "object", keys |-> {}]
    ELSE IF t = <<"{", "storageProvider", "}">>
         THEN [kind |-> "object", keys |-> {"storageProvider", "originalFileSize"}]
    ELSE IF t = <<"[", "]">> THEN [kind |-> "array", keys |-> {}]
    ELSE IF t = <<"null">> THEN [kind |-> "null", keys |-> {}]
    ELSE IF t = <<"1">> THEN [kind |-> "scalar", keys |-> {}]
    ELSE [kind |-> "invalid", keys |-> {}]

\* ------------------------------------------------------------------------
\* Responses
\* ------------------------------------------------------------------------
Response(status, error, message) ==
    Some([status |-> status, error |-> error, message |-> message,
          downloadUrl |-> <<>>])

badRequest(message) == Response(400, "Bad Request", message)

unauthorized(message) == Response(401, "Unauthorized", message)

\* the conflict reported under the status of a field error
conflictAsBadRequest(message) == badRequest(message)

conflict(message) == Response(409, "Conflict", message)

payloadTooLarge(message) == Response(413, "Payload Too Large", message)

internalError(message) == Response(500, "Internal Server Error", message)

\* the last statement of the handler answering an error
createdAsError(downloadUrl) == internalError("Failed to generate download URL")

\* lines 904-923: the 201 response
created(downloadUrl) ==
    Some([status |-> 201, error |-> "", message |-> "File uploaded successfully",
          downloadUrl |-> downloadUrl])

\* ------------------------------------------------------------------------
\* Step 1 of the handler: field validation (no backend is touched)
\* ------------------------------------------------------------------------
trimmedFileName(q) == trim(q.fileName[1])

trimmedVersion(q) == trim(q.version[1])

\* lines 530-551: file, fileName and version are present and well-formed
checkFields(q) ==
    IF q.file = None
    THEN badRequest("Missing required file field: file")
    ELSE IF q.fileName = None \/ trim(q.fileName[1]) = <<>>
    THEN badRequest("Missing required field: fileName")
    ELSE IF q.version = None \/ trim(q.version[1]) = <<>>
    THEN badRequest("Missing required field: version")
    ELSE IF ~FILE_NAME_REGEX(trimmedFileName(q))
    THEN badRequest("Invalid fileName format. Use only letters, numbers, dash, and underscore.")
    ELSE IF ~VERSION_REGEX(trimmedVersion(q))
    THEN badRequest("Invalid version format.")
    ELSE None

\* the size checks without the ceiling
checkSizeNoCeiling(q) ==
    IF q.file[1].size <= 0
    THEN badRequest("File is empty or has invalid size.")
    ELSE None

\* lines 553-559: the payload is not empty and not above the ceiling
checkSize(q) ==
    IF q.file[1].size <= 0
    THEN badRequest("File is empty or has invalid size.")
    ELSE IF q.file[1].size > MAX_FILE_SIZE_BYTES
    THEN payloadTooLarge("File size exceeds maximum allowed size of 100MB")
    ELSE None

\* the metadata check that accepts whatever JSON.parse accepts
checkMetadataAnyJson(q) ==
    IF q.metadata # None /\ trim(q.metadata[1]) # <<>>
    THEN LET m == JSONparse(q.metadata[1]) IN
         IF m.kind = "invalid" THEN badRequest("Invalid metadata JSON")
         ELSE None
    ELSE None

\* lines 561-572: a non-blank metadata field parses to a JSON object
checkMetadata(q) ==
    IF q.metadata # None /\ trim(q.metadata[1]) # <<>>
    THEN LET m == JSONparse(q.metadata[1]) IN
         IF m.kind = "invalid" THEN badRequest("Invalid metadata JSON")
         ELSE IF m.kind # "object" THEN badRequest("metadata must be a JSON object")
         ELSE None
    ELSE None

\* the validation block without the check of the metadata field
validateWithoutMetadata(q) ==
    IF checkFields(q) # None THEN checkFields(q) ELSE checkSize(q)

\* the response of the validation block, None when validation passes
validate(q) ==
    IF checkFields(q) # None THEN checkFields(q)
    ELSE IF checkSize(q) # None THEN checkSize(q)
    ELSE checkMetadata(q)

\* ------------------------------------------------------------------------
\* Step 5 of the handler: where the payload goes
\* ------------------------------------------------------------------------
originalFileName(q) ==
    IF q.file[1].name # <<>> THEN q.file[1].name
    ELSE trimmedFileName(q) \o <<"-">> \o trimmedVersion(q)

\* the routing rule with the limit itself excluded
storageProviderBelowLimit(q) ==
    IF q.file[1].size < SUPABASE_OBJECT_SIZE_LIMIT_BYTES THEN "supabase" ELSE "mega"

storageProvider(q) ==
    IF q.file[1].size <= SUPABASE_OBJECT_SIZE_LIMIT_BYTES THEN "supabase" ELSE "mega"

objectPath(q) ==
    trimmedFileName(q) \o <<"/">> \o trimmedVersion(q) \o <<"/">> \o originalFileName(q)

bucketPath(q) == STORAGE_BUCKET \o <<"/">> \o objectPath(q)

\* ------------------------------------------------------------------------
\* State
\* ------------------------------------------------------------------------
VARIABLES
    pc,             \* per request: the await the handler is suspended at
    req,            \* per request: the request it handles
    resp,           \* per request: the response it returned, None before
    loc,            \* per request: the handler's locals set by backend calls
    api_keys,       \* table api_keys: id -> row
    file_metadata,  \* table file_metadata: set of rows
    versions,       \* table versions: set of committed rows
    tx,             \* per request: its open INSERT INTO versions, None if none
    bucket,         \* Supabase Storage bucket 'files': set of objects
    mega,           \* MEGA account: set of uploaded files
    now,            \* the clock that NOW() and new Date() read
    faults,         \* per request: its backend calls that failed for
                    \* reasons of their own (network, outage)
    hist,           \* per request: what it did (observation only)
    listed          \* the results the home page loads returned since the
                    \* last write to the catalog (observation only)

vars == <<pc, req, resp, loc, api_keys, file_metadata, versions, tx, bucket,
          mega, now, faults, hist, listed>>

Reqs == 1..NumReq

\* the credentials: a seeded key, and a seeded key that was revoked since
\* (is_active set to FALSE)
ActiveSecret == <<"k", "1">>
RevokedSecret == <<"k", "2">>
UnknownSecret == <<"x">>

SeedApiKeys ==
    [id \in {1, 2} |->
        IF id = 1
        THEN [id |-> 1, key_name |-> "gitlab-ci-production", key_value |-> ActiveSecret,
              is_active |-> TRUE, last_used_at |-> 0]
        ELSE [id |-> 2, key_name |-> "jenkins-build-server", key_value |-> RevokedSecret,
              is_active |-> FALSE, last_used_at |-> 0]]

NoLocals == [uploaderName |-> "", fileMetadataId |-> 0, megaLink |-> <<>>]

NoHistory ==
    [exit |-> "", wrote |-> {}, removed |-> {}, after201 |-> FALSE,
     prechecked |-> FALSE, insertError |-> "", overlapped |-> FALSE, order |-> 0,
     lookedUp |-> FALSE, lastUsed |-> "", latestAtCommit |-> FALSE,
     storeError |-> FALSE, removeOutcome |-> "", abortedAt |-> "",
     stores |-> 0, inserts |-> 0, removes |-> 0]

Init ==
    /\ pc = [r \in Reqs |-> "idle"]
    /\ req = [r \in Reqs |-> NoRequest]
    /\ resp = [r \in Reqs |-> None]
    /\ loc = [r \in Reqs |-> NoLocals]
    /\ api_keys = SeedApiKeys
    /\ file_metadata = {}
    /\ versions = {}
    /\ tx = [r \in Reqs |-> None]
    /\ bucket = {}
    /\ mega = {}
    /\ now = 1
    /\ faults = [r \in Reqs |-> 0]
    /\ hist = [r \in Reqs |-> NoHistory]
    /\ listed = {}

\* A backend call either answers (the outcome "ok") or fails in one of the
\* ways given, while the fault budget lasts.
RECURSIVE Sum(_, _)
Sum(f, S) == IF S = {} THEN 0 ELSE LET x == CHOOSE x \in S : TRUE IN f[x] + Sum(f, S \ {x})

Outcomes(failures) ==
    IF Sum(faults, Reqs) < MaxFaults THEN {"ok"} \cup failures ELSE {"ok"}

Charge(r, outcome) ==
    faults' = IF outcome = "ok" THEN faults ELSE [faults EXCEPT ![r] = @ + 1]

\* the handler returns response p; stage is the block that returned it
Return(r, p, stage) ==
    /\ resp' = [resp EXCEPT ![r] = p]
    /\ pc' = [pc EXCEPT ![r] = "done"]
    /\ hist' = [hist EXCEPT ![r].exit = stage]

Goto(r, label) ==
    /\ pc' = [pc EXCEPT ![r] = label]
    /\ UNCHANGED <<resp, hist>>

\* the request names a well-formed (fileName, version) pair
HasPair(q) ==
    /\ q.fileName # None /\ q.version # None
    /\ FILE_NAME_REGEX(trimmedFileName(q))
    /\ VERSION_REGEX(trimmedVersion(q))

SamePair(q1, q2) ==
    /\ HasPair(q1) /\ HasPair(q2)
    /\ trimmedFileName(q1) = trimmedFileName(q2)
    /\ trimmedVersion(q1) = trimmedVersion(q2)

\* ------------------------------------------------------------------------
\* POST, lines 513-583: the request arrives and its fields are validated
\* ------------------------------------------------------------------------
\* Requests are numbered in arrival order.  `sequential` makes a client wait
\* for the previous response before it sends the next request.
Receive(r, inputs, sequential) ==
    /\ pc[r] = "idle"
    /\ \A o \in Reqs : o < r => pc[o] # "idle"
    /\ sequential => \A o \in Reqs : o < r => pc[o] = "done"
    /\ \E q \in inputs :
        /\ req' = [req EXCEPT ![r] = q]
        /\ LET after == \E o \in Reqs : /\ resp[o] # None
                                         /\ resp[o][1].status = 201
                                         /\ SamePair(req[o], q)
               h == [hist[r] EXCEPT !.after201 = after]
           IN IF validate(q) # None
              THEN /\ resp' = [resp EXCEPT ![r] = validate(q)]
                   /\ pc' = [pc EXCEPT ![r] = "done"]
                   /\ hist' = [hist EXCEPT ![r] = [h EXCEPT !.exit = "validate"]]
              ELSE /\ pc' = [pc EXCEPT ![r] = "auth"]
                   /\ hist' = [hist EXCEPT ![r] = h]
                   /\ UNCHANGED resp
    /\ UNCHANGED <<listed, loc, api_keys, file_metadata, versions, tx, bucket, mega, now, faults>>

\* ------------------------------------------------------------------------
\* POST, lines 588-627: API key authentication
\* ------------------------------------------------------------------------
\* the secret without the trim() after the prefix is cut off
providedKeyUntrimmed(q) == replaceFirst(q.authorization[1], <<"Bearer">>)

providedKey(q) == trim(replaceFirst(q.authorization[1], <<"Bearer">>))

\* the lookup without the is_active filter
lookupApiKeyAnyState(secret) ==
    {k \in DOMAIN api_keys : api_keys[k].key_value = secret}

\* .eq('key_value', providedKey).eq('is_active', true).limit(1).maybeSingle()
lookupApiKey(secret) ==
    {k \in DOMAIN api_keys : api_keys[k].key_value = secret /\ api_keys[k].is_active}

\* the handler returns p from the try block of the lookup (lines 601-625)
ReturnAfterLookup(r, p, update) ==
    /\ resp' = [resp EXCEPT ![r] = p]
    /\ pc' = [pc EXCEPT ![r] = "done"]
    /\ hist' = [hist EXCEPT ![r].exit = "auth", ![r].lookedUp = TRUE,
                             ![r].lastUsed = update]

\* The api_keys lookup answers an error result or throws; the update of
\* last_used_at, awaited in the same try block, answers an error result
\* (which the code does not look at) or throws (which the catch block
\* of lines 622-625 turns into a 500).
Authenticate(r) ==
    /\ pc[r] = "auth"
    /\ LET q == req[r] IN
       IF q.authorization = None \/ ~startsWith(q.authorization[1], <<"Bearer", " ">>)
       THEN /\ Return(r, unauthorized("Missing or invalid Authorization header"), "auth")
            /\ UNCHANGED <<loc, api_keys, now, faults>>
       ELSE IF providedKey(q) = <<>>
       THEN /\ Return(r, unauthorized("Missing API key"), "auth")
            /\ UNCHANGED <<loc, api_keys, now, faults>>
       ELSE \E outcome \in Outcomes({"lookupError", "lookupThrows", "updateError", "updateThrows"}) :
            /\ Charge(r, outcome)
            /\ IF outcome = "lookupThrows"
               THEN /\ ReturnAfterLookup(r, internalError("An error occurred while processing your request"), "")
                    /\ UNCHANGED <<loc, api_keys, now>>
               ELSE IF outcome = "lookupError" \/ lookupApiKey(providedKey(q)) = {}
               THEN /\ ReturnAfterLookup(r, unauthorized("Invalid or inactive API key"), "")
                    /\ UNCHANGED <<loc, api_keys, now>>
               ELSE LET k == CHOOSE k \in lookupApiKey(providedKey(q)) : TRUE IN
                    /\ IF outcome \in {"updateError", "updateThrows"}
                       THEN UNCHANGED <<api_keys, now>>
                       ELSE /\ api_keys' = [api_keys EXCEPT ![k].last_used_at = now]
                            /\ now' = now + 1
                    /\ IF outcome = "updateThrows"
                       THEN /\ ReturnAfterLookup(r, internalError("An error occurred while processing your request"), "throws")
                            /\ UNCHANGED loc
                       ELSE /\ loc' = [loc EXCEPT ![r].uploaderName = api_keys[k].key_name]
                            /\ pc' = [pc EXCEPT ![r] = "fileMetadata"]
                            /\ hist' = [hist EXCEPT ![r].lookedUp = TRUE,
                                                     ![r].lastUsed = IF outcome = "updateError"
                                                                     THEN "error" ELSE "ok"]
                            /\ UNCHANGED resp
    /\ UNCHANGED <<listed, req, file_metadata, versions, tx, bucket, mega>>

\* ------------------------------------------------------------------------
\* POST, lines 629-665: get or create the file_metadata row
\* ------------------------------------------------------------------------
\* .from('file_metadata').select('id, file_name').eq('file_name', name).limit(1)
selectFileMetadata(name) == {f \in file_metadata : f.file_name = name}

GetFileMetadata(r) ==
    /\ pc[r] = "fileMetadata"
    /\ \E outcome \in Outcomes({"error"}) :
        /\ Charge(r, outcome)
        /\ IF outcome = "error"
           THEN /\ Return(r, internalError("An error occurred while processing your request"), "fileMetadata")
                /\ UNCHANGED loc
           ELSE LET data == selectFileMetadata(trimmedFileName(req[r])) IN
                IF data # {}
                THEN /\ loc' = [loc EXCEPT ![r].fileMetadataId = (CHOOSE f \in data : TRUE).id]
                     /\ Goto(r, "duplicateCheck")
                ELSE /\ Goto(r, "insertFileMetadata")
                     /\ UNCHANGED loc
    /\ UNCHANGED <<listed, req, api_keys, file_metadata, versions, tx, bucket, mega, now>>

\* .from('file_metadata').insert({ file_name }).select('id, file_name').single()
\* file_name is UNIQUE: the insert of a name that is there already fails.
fileNameTaken(name) == \E f \in file_metadata : f.file_name = name

InsertFileMetadata(r) ==
    /\ pc[r] = "insertFileMetadata"
    /\ \E outcome \in Outcomes({"error"}) :
        /\ Charge(r, outcome)
        /\ IF outcome = "error" \/ fileNameTaken(trimmedFileName(req[r]))
           THEN /\ Return(r, internalError("An error occurred while processing your request"), "insertFileMetadata")
                /\ UNCHANGED <<loc, file_metadata, now, listed>>
           ELSE /\ file_metadata' = file_metadata \cup
                        {[id |-> r, file_name |-> trimmedFileName(req[r]),
                          created_at |-> now, updated_at |-> now]}
                /\ now' = now + 1
                /\ loc' = [loc EXCEPT ![r].fileMetadataId = r]
                /\ listed' = {}
                /\ Goto(r, "duplicateCheck")
    /\ UNCHANGED <<req, api_keys, versions, tx, bucket, mega>>

\* ------------------------------------------------------------------------
\* POST, lines 667-689: duplicate version check
\* ------------------------------------------------------------------------
\* .from('versions').select('id').eq('file_metadata_id', id).eq('version', v)
\* the duplicate check left out: the query matches nothing
selectVersionsSkipped(fileMetadataId, version) == {}

selectVersions(fileMetadataId, version) ==
    {v \in versions : v.file_metadata_id = fileMetadataId /\ v.version = version}

DuplicateCheck(r) ==
    /\ pc[r] = "duplicateCheck"
    /\ \E outcome \in Outcomes({"error"}) :
        /\ Charge(r, outcome)
        /\ IF outcome = "error"
           THEN Return(r, internalError("An error occurred while processing your request"), "duplicateCheck")
           ELSE IF selectVersions(loc[r].fileMetadataId, trimmedVersion(req[r])) # {}
           THEN Return(r, conflict("Version already exists for file"), "duplicateCheck")
           ELSE /\ pc' = [pc EXCEPT ![r] = "store"]
                /\ hist' = [hist EXCEPT ![r].prechecked = TRUE]
                /\ UNCHANGED resp
    /\ UNCHANGED <<listed, req, loc, api_keys, file_metadata, versions, tx, bucket, mega, now>>

\* ------------------------------------------------------------------------
\* POST, lines 691-823: the payload is written to one of the two backends
\* ------------------------------------------------------------------------
originalContentType(q) ==
    IF q.file[1].type # <<>> THEN q.file[1].type ELSE <<"application/octet-stream">>

\* supabase.storage.from('files').upload(objectPath, ..., { upsert: false }):
\* all or nothing, and refused when an object is at the key already
\* the failure exit of the storage step that goes on to the insert
storeFailedContinues(r, message, written) ==
    /\ pc' = [pc EXCEPT ![r] = "insertVersion"]
    /\ hist' = [hist EXCEPT ![r].storeError = TRUE, ![r].wrote = @ \cup written,
                             ![r].stores = @ + 1]
    /\ UNCHANGED resp

\* the failure exit of the storage step that issues the write again
storeFailedRetries(r, message, written) ==
    /\ hist' = [hist EXCEPT ![r].storeError = TRUE, ![r].wrote = @ \cup written,
                             ![r].stores = @ + 1]
    /\ UNCHANGED <<pc, resp>>

\* the failure exit of the storage step with the compensating remove
storeFailedRollsBack(r, message, written) ==
    /\ pc' = [pc EXCEPT ![r] = "rollback"]
    /\ hist' = [hist EXCEPT ![r].storeError = TRUE, ![r].wrote = @ \cup written,
                             ![r].stores = @ + 1]
    /\ UNCHANGED resp

\* the storage step whose promise is never settled when the write fails
storeFailedNeverSettles(r, message, written) ==
    /\ pc' = [pc EXCEPT ![r] = "pending"]
    /\ hist' = [hist EXCEPT ![r].storeError = TRUE, ![r].wrote = @ \cup written,
                             ![r].stores = @ + 1]
    /\ UNCHANGED resp

\* lines 778-781, 806-812, 815-822: the storage write failed; `written` is
\* what the failed call left behind
storeFailed(r, message, written) ==
    /\ resp' = [resp EXCEPT ![r] = internalError(message)]
    /\ pc' = [pc EXCEPT ![r] = "done"]
    /\ hist' = [hist EXCEPT ![r].exit = "store", ![r].storeError = TRUE,
                             ![r].wrote = @ \cup written, ![r].stores = @ + 1]

\* the upload with upsert: true, which takes no notice of an object at the key
keyExistsIgnored(key) == FALSE

\* upsert: false (line 803): the bucket refuses a key that holds an object
keyExists(key) == \E o \in bucket : o.key = key

StoreSupabase(r) ==
    /\ pc[r] = "store"
    /\ storageProvider(req[r]) = "supabase"
    /\ \E outcome \in Outcomes({"error"}) :
        /\ Charge(r, outcome)
        /\ IF outcome = "error" \/ keyExists(objectPath(req[r]))
           THEN /\ storeFailed(r, "Failed to upload file to storage", {})
                /\ UNCHANGED bucket
           ELSE /\ bucket' = {o \in bucket : o.key # objectPath(req[r])}
                                \cup {[key |-> objectPath(req[r]), by |-> r]}
                /\ pc' = [pc EXCEPT ![r] = "insertVersion"]
                /\ hist' = [hist EXCEPT ![r].wrote = @ \cup {<<"supabase", objectPath(req[r])>>},
                                         ![r].stores = @ + 1]
                /\ UNCHANGED resp
    /\ UNCHANGED <<listed, req, loc, api_keys, file_metadata, versions, tx, mega, now>>

\* the link uploadedFile.link() answers for the file request r uploaded
megaLinkOf(r) == <<"https://", "mega.nz", "/file/", ToString(r)>>

\* the links of the two formats the megajs releases build: /file/<id>#<key>
\* and the older /#!<id>!<key>
megaLinks(r) == {megaLinkOf(r), <<"https://", "mega.nz", "/#!", ToString(r)>>}

\* getMegaClient(), mega.upload(...) until 'complete' or 'error', then
\* uploadedFile.link().  The upload can fail, and so can the link request
\* after a completed upload.
StoreMega(r) ==
    /\ pc[r] = "store"
    /\ storageProvider(req[r]) = "mega"
    /\ \E outcome \in Outcomes({"uploadError", "linkError"}) :
        /\ Charge(r, outcome)
        /\ IF outcome = "uploadError"
           THEN /\ storeFailed(r, "Failed to upload file to cloud storage", {})
                /\ UNCHANGED <<mega, loc>>
           ELSE /\ mega' = mega \cup {[name |-> originalFileName(req[r]), by |-> r]}
                /\ IF outcome = "linkError"
                   THEN /\ storeFailed(r, "Failed to upload file to cloud storage",
                                        {<<"mega", originalFileName(req[r])>>})
                        /\ UNCHANGED loc
                   ELSE /\ \E megaLink \in megaLinks(r) :
                                loc' = [loc EXCEPT ![r].megaLink = megaLink]
                        /\ pc' = [pc EXCEPT ![r] = "insertVersion"]
                        /\ hist' = [hist EXCEPT ![r].wrote = @ \cup {<<"mega", originalFileName(req[r])>>},
                                                 ![r].stores = @ + 1]
                        /\ UNCHANGED resp
    /\ UNCHANGED <<listed, req, api_keys, file_metadata, versions, tx, bucket, now>>

\* ------------------------------------------------------------------------
\* POST, lines 825-877, and the trigger update_latest_version
\* ------------------------------------------------------------------------
storagePath(r) ==
    IF storageProvider(req[r]) = "supabase" THEN bucketPath(req[r]) ELSE loc[r].megaLink

\* the metadata with the spread last: { storageProvider, ..., ...(metadata ?? {}) }
versionMetadataClientWins(q) ==
    LET given == IF q.metadata # None /\ trim(q.metadata[1]) # <<>>
                 THEN JSONparse(q.metadata[1]).keys ELSE {}
    IN [k \in given \cup {"storageProvider", "originalFileSize", "originalFileType"} |->
          IF k \in given THEN <<"client">>
          ELSE IF k = "storageProvider" THEN <<storageProvider(q)>>
          ELSE IF k = "originalFileSize" THEN <<ToString(q.file[1].size)>>
          ELSE originalContentType(q)]

\* metadata: { ...(metadata ?? {}), storageProvider, originalFileSize, originalFileType }
versionMetadata(q) ==
    LET given == IF q.metadata # None /\ trim(q.metadata[1]) # <<>>
                 THEN JSONparse(q.metadata[1]).keys ELSE {}
    IN [k \in given \cup {"storageProvider", "originalFileSize", "originalFileType"} |->
          IF k = "storageProvider" THEN <<storageProvider(q)>>
          ELSE IF k = "originalFileSize" THEN <<ToString(q.file[1].size)>>
          ELSE IF k = "originalFileType" THEN originalContentType(q)
          ELSE <<"client">>]

\* the row of .from('versions').insert({...}); the columns the statement
\* does not give take their defaults (is_latest FALSE, uploaded_at NOW())
versionRow(r) ==
    [id |-> r,
     file_metadata_id |-> loc[r].fileMetadataId,
     version |-> trimmedVersion(req[r]),
     storage_path |-> storagePath(r),
     file_size |-> req[r].file[1].size,
     file_type |-> originalContentType(req[r]),
     uploaded_at |-> now,
     metadata |-> versionMetadata(req[r]),
     is_latest |-> FALSE,
     uploaded_by |-> loc[r].uploaderName]

\* the versions table without its UNIQUE constraint
noUniqueConstraint(fileMetadataId, version) == FALSE

\* versions: UNIQUE(file_metadata_id, version), against the committed rows
uniqueViolation(fileMetadataId, version) ==
    \E v \in versions : v.file_metadata_id = fileMetadataId /\ v.version = version

\* open transactions that insert a row with the same unique key
sameKeyOpen(r) ==
    {o \in Reqs \ {r} : /\ tx[o] # None
                        /\ tx[o][1].row.file_metadata_id = loc[r].fileMetadataId
                        /\ tx[o][1].row.version = trimmedVersion(req[r])}

\* open transactions that insert a version of the same file
sameFileOpen(r) ==
    {o \in Reqs \ {r} : /\ tx[o] # None
                        /\ tx[o][1].row.file_metadata_id = loc[r].fileMetadataId}

\* the failure exit without the compensating remove
insertFailedNoRollback(r, cause) ==
    /\ resp' = [resp EXCEPT ![r] = internalError("Failed to create version record")]
    /\ pc' = [pc EXCEPT ![r] = "done"]
    /\ hist' = [hist EXCEPT ![r].insertError = cause, ![r].exit = "insertVersion",
                             ![r].inserts = @ + 1]

\* the failure exit with the compensating remove whatever the backend
insertFailedAlwaysRollback(r, cause) ==
    /\ pc' = [pc EXCEPT ![r] = "rollback"]
    /\ hist' = [hist EXCEPT ![r].insertError = cause, ![r].inserts = @ + 1]
    /\ UNCHANGED resp

\* what the handler does when the insert answered an error (or threw)
insertFailed(r, cause) ==
    IF storageProvider(req[r]) = "supabase"
    THEN /\ pc' = [pc EXCEPT ![r] = "rollback"]
         /\ hist' = [hist EXCEPT ![r].insertError = cause, ![r].inserts = @ + 1]
         /\ UNCHANGED resp
    ELSE /\ resp' = [resp EXCEPT ![r] = internalError("Failed to create version record")]
         /\ pc' = [pc EXCEPT ![r] = "done"]
         /\ hist' = [hist EXCEPT ![r].insertError = cause, ![r].exit = "insertVersion",
                                  ![r].inserts = @ + 1]

\* the rows of the file that the trigger's first UPDATE sees: the rows
\* committed when the statement starts (READ COMMITTED)
triggerSnapshot(fileMetadataId) ==
    {v.id : v \in {w \in versions : w.file_metadata_id = fileMetadataId}}

\* The INSERT INTO versions starts.  UNIQUE(file_metadata_id, version): it
\* waits for an open transaction that inserts the same key, and fails when
\* the key is committed.  Else the row is written, not yet visible to others.
InsertVersion(r) ==
    /\ pc[r] = "insertVersion"
    /\ sameKeyOpen(r) = {}
    /\ \E outcome \in Outcomes({"error"}) :
        /\ Charge(r, outcome)
        /\ IF outcome = "error"
           THEN /\ insertFailed(r, "other")
                /\ UNCHANGED <<tx, now>>
           ELSE IF uniqueViolation(loc[r].fileMetadataId, trimmedVersion(req[r]))
           THEN /\ insertFailed(r, "unique")
                /\ UNCHANGED <<tx, now>>
           ELSE /\ tx' = [tx EXCEPT ![r] =
                            Some([row |-> versionRow(r),
                                  snapshot |-> triggerSnapshot(loc[r].fileMetadataId)])]
                /\ now' = now + 1
                /\ pc' = [pc EXCEPT ![r] = "commit"]
                /\ hist' = [o \in Reqs |->
                              LET h == IF o = r THEN [hist[o] EXCEPT !.inserts = @ + 1]
                                       ELSE hist[o]
                              IN IF sameFileOpen(r) # {} /\ o \in sameFileOpen(r) \cup {r}
                                 THEN [h EXCEPT !.overlapped = TRUE]
                                 ELSE h]
                /\ UNCHANGED resp
    /\ UNCHANGED <<listed, req, loc, api_keys, file_metadata, versions, bucket, mega>>

\* the trigger without its first UPDATE
unmarkNone(rows, snapshot) == rows

\* the first statement of the trigger without its WHERE clause
unmarkEveryFile(rows, snapshot) == {[v EXCEPT !.is_latest = FALSE] : v \in rows}

\* the first statement of the trigger as a DELETE of the rows it sees
deletePrevious(rows, snapshot) == {v \in rows : v.id \notin snapshot}

\* update_latest_version(), lines 9-11: UPDATE versions SET is_latest = FALSE
\* WHERE file_metadata_id = NEW.file_metadata_id, on the rows it sees
unmarkPrevious(rows, snapshot) ==
    {IF v.id \in snapshot THEN [v EXCEPT !.is_latest = FALSE] ELSE v : v \in rows}

\* the trigger without its second UPDATE
markLatestSkipped(row) == row

\* update_latest_version(), lines 14-16: UPDATE ... SET is_latest = TRUE WHERE id = NEW.id
markLatest(row) == [row EXCEPT !.is_latest = TRUE]

\* update_latest_version(), lines 19-21: UPDATE file_metadata SET updated_at = NOW()
\* (NOW() is the start time of the transaction)
touchFileMetadata(rows, fileMetadataId, at) ==
    {IF f.id = fileMetadataId THEN [f EXCEPT !.updated_at = at] ELSE f : f \in rows}

includes(s, part) ==
    \E i \in 1..Len(s) : i + Len(part) - 1 <= Len(s) /\ SubSeq(s, i, i + Len(part) - 1) = part

PUBLIC_SUPABASE_URL == <<"https://", "project.supabase.co", "/">>

\* supabaseUrl.replace(/\/$/, '')
stripSlash(s) == IF s # <<>> /\ s[Len(s)] = "/" THEN SubSeq(s, 1, Len(s) - 1) ELSE s

\* the final rule with the URL always built from the storage path
finalDownloadUrlConstructed(downloadUrl, path) ==
    stripSlash(PUBLIC_SUPABASE_URL) \o <<"/storage/v1/object/public", "/">> \o path

\* lines 879-917: the download URL of the 201 response
finalDownloadUrl(downloadUrl, path) ==
    IF downloadUrl # <<>> /\ includes(downloadUrl, <<"https://", "mega.nz">>)
    THEN downloadUrl
    ELSE stripSlash(PUBLIC_SUPABASE_URL) \o <<"/storage/v1/object/public", "/">> \o path

\* The trigger has run and the transaction commits: the row becomes visible
\* with is_latest TRUE, the rows of the snapshot are unmarked, updated_at is
\* set.  The handler then answers 201 (lines 879-923 touch no backend).
CommitVersion(r) ==
    /\ pc[r] = "commit"
    /\ tx[r] # None
    /\ LET t == tx[r][1] IN
        /\ versions' = unmarkPrevious(versions, t.snapshot) \cup {markLatest(t.row)}
        /\ file_metadata' = touchFileMetadata(file_metadata, t.row.file_metadata_id, t.row.uploaded_at)
        /\ tx' = [tx EXCEPT ![r] = None]
        /\ resp' = [resp EXCEPT ![r] = created(finalDownloadUrl(loc[r].megaLink, t.row.storage_path))]
        /\ pc' = [pc EXCEPT ![r] = "done"]
        /\ hist' = [hist EXCEPT ![r].exit = "created", ![r].order = Cardinality(versions) + 1,
                                 ![r].latestAtCommit = markLatest(t.row).is_latest]
    /\ listed' = {}
    /\ UNCHANGED <<req, loc, api_keys, bucket, mega, now, faults>>

\* the remove that answers without deleting the object
removeNone(objects, key) == objects

\* storage.from('files').remove([objectPath]) when it succeeds
remove(objects, key) == {o \in objects : o.key # key}

\* the response after the remove, with a failed remove reported
rollbackResponseSurfaced(outcome) ==
    IF outcome = "ok" THEN internalError("Failed to create version record")
    ELSE internalError("Failed to roll back storage upload")

\* lines 861, 876: the response after the remove, whatever it answered
rollbackResponse(outcome) == internalError("Failed to create version record")

\* lines 853-861, 868-876: supabase.storage.from('files').remove([objectPath]),
\* best effort, then the 500 response.  The remove answers, answers an error
\* result (which the code does not look at) or throws (caught and logged).
Rollback(r) ==
    /\ pc[r] = "rollback"
    /\ \E outcome \in Outcomes({"error", "throws"}) :
        /\ Charge(r, outcome)
        /\ bucket' = IF outcome # "ok" THEN bucket
                     ELSE remove(bucket, objectPath(req[r]))
        /\ resp' = [resp EXCEPT ![r] = rollbackResponse(outcome)]
        /\ hist' = [hist EXCEPT ![r].exit = "insertVersion",
                                 ![r].removed = @ \cup {objectPath(req[r])},
                                 ![r].removeOutcome = outcome, ![r].removes = @ + 1]
    /\ pc' = [pc EXCEPT ![r] = "done"]
    /\ UNCHANGED <<listed, req, loc, api_keys, file_metadata, versions, tx, mega, now>>

\* ------------------------------------------------------------------------
\* The home page: load, src/src/routes/+page.server.ts:42-124
\* ------------------------------------------------------------------------
\* the orders in which a query can return the rows of S
Perms(S) ==
    {p \in [1..Cardinality(S) -> S] : \A i, j \in 1..Cardinality(S) : i # j => p[i] # p[j]}

\* new Date(uploaded_at).getTime(): milliseconds, the microseconds are cut off
getTime(timestamp) == timestamp \div TicksPerMillisecond

\* the query as an inner join: only the files that have a version
selectFilesWithVersions ==
    LET having == {f \in file_metadata : \E v \in versions : v.file_metadata_id = f.id} IN
    {p \in Perms(having) :
        \A i, j \in 1..Len(p) : i < j => p[i].updated_at >= p[j].updated_at}

\* .from('file_metadata').select(...).order('updated_at', { ascending: false }):
\* the rows by updated_at descending, rows with one updated_at in any order
selectFilesOrdered ==
    {p \in Perms(file_metadata) :
        \A i, j \in 1..Len(p) : i < j => p[i].updated_at >= p[j].updated_at}

\* the sort with every pair of versions left as it came
sortSkipped(rows) == rows

\* .slice().sort((a, b) => getTime(b.uploaded_at) - getTime(a.uploaded_at)):
\* a stable sort, rows that compare equal stay in the order they came in
RECURSIVE sortByUploadedAt(_)
sortByUploadedAt(rows) ==
    IF rows = <<>> THEN <<>>
    ELSE LET x == rows[Len(rows)]
             front == sortByUploadedAt(SubSeq(rows, 1, Len(rows) - 1))
             k == Cardinality({i \in 1..Len(front) :
                                 getTime(front[i].uploaded_at) >= getTime(x.uploaded_at)})
         IN SubSeq(front, 1, k) \o <<x>> \o SubSeq(front, k + 1, Len(front))

downloadBase == stripSlash(PUBLIC_SUPABASE_URL) \o <<"/storage/v1/object/public">>

\* the listing's URL rule with every location taken for a bucket path
downloadUrlPrefixed(storage_path) == downloadBase \o <<"/">> \o storage_path

\* lines 87-90: a location that is a full URL is the download URL
downloadUrlOf(storage_path) ==
    IF startsWith(storage_path, <<"http://">>) \/ startsWith(storage_path, <<"https://">>)
    THEN storage_path
    ELSE downloadBase \o <<"/">> \o storage_path

FileVersionView(v) ==
    [id |-> v.id, version |-> v.version, fileSize |-> v.file_size, fileType |-> v.file_type,
     uploadedAt |-> v.uploaded_at, storagePath |-> v.storage_path, isLatest |-> v.is_latest,
     downloadUrl |-> downloadUrlOf(v.storage_path)]

\* lines 77-111: one view per row of the answer; rows are the versions in
\* the order the embedded select returned them
FileView(fileRow, rows) ==
    LET own == SelectSeq(rows, LAMBDA v : v.file_metadata_id = fileRow.id)
        sorted == sortByUploadedAt(own)
    IN [id |-> fileRow.id, fileName |-> fileRow.file_name,
        createdAt |-> fileRow.created_at, updatedAt |-> fileRow.updated_at,
        versions |-> [i \in 1..Len(sorted) |-> FileVersionView(sorted[i])]]

\* the page component: hasVersions(file) and latestVersion(file), the version
\* shown in the 'Latest' chip
hasVersions(file) == Len(file.versions) > 0

latestVersion(file) == IF hasVersions(file) THEN Some(file.versions[1]) ELSE None

\* One load of the home page.  The query fails (loadError) or answers the
\* committed rows; the embedded versions come without ORDER BY, in any
\* order.
load ==
    /\ \E outcome \in {"ok", "error"} :
        IF outcome = "error"
        THEN listed' = listed \cup
                 {[files |-> <<>>, loadError |-> "Failed to load files. Please try again later."]}
        ELSE \E data \in selectFilesOrdered, rows \in Perms(versions) :
             listed' = listed \cup
                 {[files |-> [i \in 1..Len(data) |-> FileView(data[i], rows)],
                   loadError |-> ""]}
    /\ UNCHANGED <<pc, req, resp, loc, api_keys, file_metadata, versions, tx, bucket,
                   mega, now, faults, hist>>

\* ------------------------------------------------------------------------
\* The requests the clients send
\* ------------------------------------------------------------------------
Upload(secret, fileName, version, file, size) ==
    Request(Bearer(secret), File(file, size, <<>>), Some(fileName), Some(version), None)

\* concurrent pipelines publishing file "a": a version, another version,
\* and the first version again under another original file name and with a
\* payload above the object size limit
RaceInputs ==
    {Upload(ActiveSecret, <<"a">>, <<"1">>, <<"g">>, 1),
     Upload(ActiveSecret, <<"a">>, <<"2">>, <<"f">>, 1),
     Upload(ActiveSecret, <<"a">>, <<"1">>, <<"f">>, SUPABASE_OBJECT_SIZE_LIMIT_BYTES + 1)}

Authorizations ==
    {None, Some(<<"Basic", " ">> \o ActiveSecret), Bearer(<<" ">>),
     Bearer(UnknownSecret), Bearer(RevokedSecret), Bearer(ActiveSecret)}

Sizes ==
    {0, 1, SUPABASE_OBJECT_SIZE_LIMIT_BYTES, SUPABASE_OBJECT_SIZE_LIMIT_BYTES + 1,
     MAX_FILE_SIZE_BYTES, MAX_FILE_SIZE_BYTES + 1}

\* one client probing the endpoint: every credential with a well-formed and
\* with a malformed fileName and with a small and an oversized payload; the
\* active credential with every size; and the active credential with each
\* field missing or malformed
ProbeInputs ==
    {Request(a, File(<<"f">>, n, <<>>), Some(name), Some(<<"1">>), None) :
        a \in Authorizations, n \in {1, MAX_FILE_SIZE_BYTES + 1},
        name \in {<<"a">>, <<"a", "!">>}}
    \cup
    {Upload(ActiveSecret, <<"a">>, <<"1">>, <<"f">>, n) : n \in Sizes}
    \cup
    {Request(Bearer(ActiveSecret), File(<<>>, 1, <<"text/plain">>),
             Some(<<" ", "a", " ">>), Some(version), metadata) :
        version \in {<<"1", ".", "2">>, <<"1", " ", "2">>},
        metadata \in {None, Some(<<"{", "}">>), Some(<<"[", "]">>), Some(<<"x">>)}}
    \cup
    {Request(Bearer(ActiveSecret), None, Some(<<"a">>), Some(<<"1">>), None),
     Request(Bearer(ActiveSecret), File(<<"f">>, 1, <<>>), None, Some(<<"1">>), None),
     Request(Bearer(ActiveSecret), File(<<"f">>, 1, <<>>), Some(<<" ">>), Some(<<"1">>), None),
     Request(Bearer(ActiveSecret), File(<<"f">>, 1, <<>>), Some(<<"a">>), None, None),
     Request(Bearer(ActiveSecret), File(<<"f">>, MAX_FILE_SIZE_BYTES + 1, <<>>),
             Some(<<"a">>), Some(<<"1">>), Some(<<"x">>))}

\* pipelines publishing versions of the files "a" and "b" while the home
\* page is loaded
ListInputs ==
    {Upload(ActiveSecret, <<"a">>, <<"1">>, <<"f">>, 1),
     Upload(ActiveSecret, <<"b">>, <<"1">>, <<"f">>, 1),
     Upload(ActiveSecret, <<"a">>, <<"2">>, <<"f">>, SUPABASE_OBJECT_SIZE_LIMIT_BYTES + 1)}

\* ------------------------------------------------------------------------
\* Specifications
\* ------------------------------------------------------------------------
Handler(r) ==
    \/ Authenticate(r)
    \/ GetFileMetadata(r)
    \/ InsertFileMetadata(r)
    \/ DuplicateCheck(r)
    \/ StoreSupabase(r)
    \/ StoreMega(r)
    \/ InsertVersion(r)
    \/ CommitVersion(r)
    \/ Rollback(r)

\* concurrent uploads
Next == \E r \in Reqs : Receive(r, RaceInputs, FALSE) \/ Handler(r)

Spec == Init /\ [][Next]_vars

\* one client, one request after the other
NextSeq == \E r \in Reqs : Receive(r, ProbeInputs, TRUE) \/ Handler(r)

SpecSeq == Init /\ [][NextSeq]_vars

\* concurrent uploads and loads of the home page
NextList == (\E r \in Reqs : Receive(r, ListInputs, FALSE) \/ Handler(r)) \/ load

SpecList == Init /\ [][NextList]_vars

\* one client, one upload after the other, and loads of the home page
NextPage == (\E r \in Reqs : Receive(r, ListInputs, TRUE) \/ Handler(r)) \/ load

SpecPage == Init /\ [][NextPage]_vars

\* The client aborts request r while the handler is suspended at an await.
\* The handler never reads request.signal and registers no abort listener,
\* so it is not told and goes on from where it is.
Abort(r) ==
    /\ pc[r] \notin {"idle", "done"}
    /\ hist[r].abortedAt = ""
    /\ hist' = [hist EXCEPT ![r].abortedAt = pc[r]]
    /\ UNCHANGED <<pc, req, resp, loc, api_keys, file_metadata, versions, tx, bucket,
                   mega, now, faults, listed>>

\* one client, one upload after the other, each of which it may abort
NextAbort == \E r \in Reqs : Receive(r, RaceInputs, TRUE) \/ Handler(r) \/ Abort(r)

SpecAbort == Init /\ [][NextAbort]_vars

NextFair == \E r \in Reqs : Receive(r, RaceInputs, TRUE) \/ Handler(r)

\* one client, one upload after the other, with backend calls that all
\* return or fail: a handler suspended at an await is resumed when the call
\* has answered
SpecFair == Init /\ [][NextFair]_vars /\ \A r \in Reqs : WF_vars(Handler(r))

\* uploads of versions of file "a" below and above the object size limit,
\* without metadata, with an empty metadata object and with a metadata
\* object that has values of its own for storageProvider and originalFileSize
MetadataInputs ==
    {Request(Bearer(ActiveSecret), File(<<"f">>, n, <<>>), Some(<<"a">>), Some(version), metadata) :
        n \in {1, SUPABASE_OBJECT_SIZE_LIMIT_BYTES + 1},
        version \in {<<"1">>, <<"2">>},
        metadata \in {None, Some(<<"{", "}">>), Some(<<"{", "storageProvider", "}">>)}}

NextMeta == \E r \in Reqs : Receive(r, MetadataInputs, TRUE) \/ Handler(r)

\* one client, one upload after the other, with and without metadata
SpecMeta == Init /\ [][NextMeta]_vars

\* the object an earlier upload of a/1/g left in the bucket when its insert
\* and then its remove failed
LeftObject == [key |-> <<"a", "/", "1", "/", "g">>, by |-> 0]

NextSeqRace == \E r \in Reqs : Receive(r, RaceInputs, TRUE) \/ Handler(r)

InitRetry ==
    /\ pc = [r \in Reqs |-> "idle"]
    /\ req = [r \in Reqs |-> NoRequest]
    /\ resp = [r \in Reqs |-> None]
    /\ loc = [r \in Reqs |-> NoLocals]
    /\ api_keys = SeedApiKeys
    /\ file_metadata = {}
    /\ versions = {}
    /\ tx = [r \in Reqs |-> None]
    /\ bucket = {LeftObject}
    /\ mega = {}
    /\ now = 1
    /\ faults = [r \in Reqs |-> 0]
    /\ hist = [r \in Reqs |-> NoHistory]
    /\ listed = {}

\* one client sending its uploads again, one after the other, after such a
\* failure
SpecRetry == InitRetry /\ [][NextSeqRace]_vars

\* ------------------------------------------------------------------------
\* Observations used by the properties
\* ------------------------------------------------------------------------
Done(r) == resp[r] # None

Status(r) == resp[r][1].status

\* the Authorization header carries the secret of an active key
CredentialValid(q) ==
    /\ q.authorization # None
    /\ startsWith(q.authorization[1], <<"Bearer", " ">>)
    /\ \E k \in DOMAIN api_keys : api_keys[k].key_value = providedKey(q) /\ api_keys[k].is_active

\* the request gets through validation and authentication
Accepted(q) == validate(q) = None /\ CredentialValid(q)

\* the request inserted a versions row (committed, or still in its transaction)
Inserted(r) == tx[r] # None \/ hist[r].order > 0

FileVersions(fileMetadataId) == {v \in versions : v.file_metadata_id = fileMetadataId}

SupabaseKeys(r) == {w[2] : w \in {x \in hist[r].wrote : x[1] = "supabase"}}

Backends(r) == {w[1] : w \in hist[r].wrote}

\* what follows "Bearer " in the Authorization header, white space removed
Secret(q) == trim(SubSeq(q.authorization[1], 3, Len(q.authorization[1])))

\* the header is absent, does not start with "Bearer ", or carries no secret
NoSecret(q) ==
    \/ q.authorization = None
    \/ Len(q.authorization[1]) < 2
    \/ SubSeq(q.authorization[1], 1, 2) # <<"Bearer", " ">>
    \/ Secret(q) = <<>>

\* one of the field errors of the upload form
Malformed(q) ==
    \/ q.file = None
    \/ q.file[1].size <= 0
    \/ q.fileName = None
    \/ trim(q.fileName[1]) = <<>>
    \/ q.version = None
    \/ trim(q.version[1]) = <<>>
    \/ \E i \in 1..Len(trim(q.fileName[1])) : trim(q.fileName[1])[i] \notin FileNameChars
    \/ \E i \in 1..Len(trim(q.version[1])) : trim(q.version[1])[i] \notin VersionChars
    \/ /\ q.metadata # None
       /\ trim(q.metadata[1]) # <<>>
       /\ JSONparse(q.metadata[1]).kind \in {"invalid", "array", "scalar", "null"}

\* the successful loads of the home page
Loads == {l \in listed : l.loadError = ""}

\* ------------------------------------------------------------------------
\* Properties
\* ------------------------------------------------------------------------

\* C1: once an upload of a (name, version) pair has returned 201, an upload
\* of the same pair that starts later never gets as far as the storage write
\* or the versions insert (no object written or deleted, no row inserted),
\* never returns 201, and returns 409 whenever it passes validation and
\* authentication and none of its backend calls fails.
UniquenessAfterCreated ==
    \A r \in Reqs : hist[r].after201 =>
        /\ pc[r] \notin {"store", "insertVersion", "commit", "rollback"}
        /\ hist[r].wrote = {} /\ hist[r].removed = {} /\ ~Inserted(r)
        /\ \A v \in versions : v.id # r
        /\ \A o \in bucket \cup mega : o.by # r
        /\ Done(r) => Status(r) # 201
        /\ (Done(r) /\ Accepted(req[r]) /\ faults[r] = 0) => Status(r) = 409

UniquenessWitness ==
    \E r \in Reqs : /\ hist[r].after201 /\ Done(r) /\ Status(r) = 409
                    /\ faults[r] = 0
                    /\ \E o \in Reqs : o # r /\ Done(o) /\ Status(o) = 201
                                       /\ \E v \in versions : v.id = o

\* C2: for every file all of whose versions were committed by transactions
\* that did not overlap another insert into the same file, exactly one
\* version has is_latest = TRUE, and it is the one committed last.
LatestInvariantSequential ==
    \A f \in file_metadata :
        LET V == FileVersions(f.id) IN
        (V # {} /\ \A v \in V : ~hist[v.id].overlapped) =>
            \E l \in V : /\ l.is_latest
                         /\ \A v \in V \ {l} : /\ ~v.is_latest
                                               /\ hist[v.id].order < hist[l.id].order

LatestSequentialWitness ==
    \E l \in versions, v \in versions :
        /\ l.file_metadata_id = v.file_metadata_id
        /\ l.version = <<"1">> /\ v.version = <<"2">>
        /\ ~hist[l.id].overlapped /\ ~hist[v.id].overlapped
        /\ hist[v.id].order < hist[l.id].order
        /\ l.is_latest /\ ~v.is_latest

\* C3: when two uploads of the same (name, version) have both passed the
\* duplicate check and both have returned, with no backend call of theirs
\* failing, one of them returned 201 and the other 409.
CommitRaceLossIsConflict ==
    \A r1 \in Reqs, r2 \in Reqs :
        (/\ r1 # r2 /\ SamePair(req[r1], req[r2])
         /\ hist[r1].prechecked /\ hist[r2].prechecked
         /\ Done(r1) /\ Done(r2) /\ faults[r1] = 0 /\ faults[r2] = 0)
        => {Status(r1), Status(r2)} = {201, 409}

\* C4: when the inserts of two versions of the same file overlapped and
\* both transactions have committed, the one that committed second (and
\* last of all on that file) is the only version with is_latest = TRUE.
LatestUnderConcurrentCommits ==
    \A v1 \in versions, v2 \in versions :
        (/\ v1.id # v2.id /\ v1.file_metadata_id = v2.file_metadata_id
         /\ hist[v1.id].overlapped /\ hist[v2.id].overlapped
         /\ hist[v1.id].order < hist[v2.id].order
         /\ \A v \in FileVersions(v2.file_metadata_id) : hist[v.id].order <= hist[v2.id].order)
        => /\ v2.is_latest
           /\ \A v \in FileVersions(v2.file_metadata_id) \ {v2} : ~v.is_latest

\* C5: the catalog never holds two rows with the same (file_metadata_id,
\* version), and of two uploads of the same pair that both passed the
\* duplicate check at most one inserts a row.
VersionUniqueness ==
    /\ \A v1 \in versions, v2 \in versions :
           (v1.file_metadata_id = v2.file_metadata_id /\ v1.version = v2.version)
           => v1.id = v2.id
    /\ \A r1 \in Reqs, r2 \in Reqs :
           (r1 # r2 /\ hist[r1].prechecked /\ hist[r2].prechecked
            /\ SamePair(req[r1], req[r2]))
           => ~(Inserted(r1) /\ Inserted(r2))

VersionUniquenessWitness ==
    \E r1 \in Reqs, r2 \in Reqs :
        /\ r1 # r2 /\ SamePair(req[r1], req[r2])
        /\ hist[r1].prechecked /\ hist[r2].prechecked
        /\ hist[r1].order > 0 /\ hist[r2].insertError = "unique"

\* C6: an upload whose versions insert failed (unique violation or any
\* other failure) after it wrote an object to the bucket has, when it
\* returns, issued a remove for the key it wrote and for no other key; and
\* no upload issues a remove otherwise.
CompensatingRollback ==
    \A r \in Reqs :
        /\ (Done(r) /\ hist[r].insertError # "" /\ SupabaseKeys(r) # {})
           => (hist[r].removed = SupabaseKeys(r) /\ Status(r) = 500)
        /\ hist[r].removed # {}
           => (hist[r].insertError # "" /\ hist[r].removed = SupabaseKeys(r))

CompensatingRollbackWitness ==
    \E r \in Reqs :
        /\ Done(r) /\ hist[r].insertError = "unique" /\ faults[r] = 0
        /\ hist[r].removed = {<<"a", "/", "1", "/", "g">>}
        /\ \A o \in bucket : o.by # r

\* C7: an upload writes to at most one backend, to the bucket only if its
\* size is in 1..50 MiB and to MEGA only if its size is above 50 MiB and at
\* most 100 MiB; once it is past the storage step it has written to the
\* backend its size selects; and the row it commits carries the bucket
\* path files/name/version/originalFilename in the first case and the MEGA
\* link in the second.
RoutingDeterminism ==
    \A r \in Reqs :
        LET q == req[r]
            n == q.file[1].size
        IN
        q.file # None =>
        /\ Cardinality(Backends(r)) <= 1
        /\ "supabase" \in Backends(r) => (0 < n /\ n <= 52428800)
        /\ "mega" \in Backends(r) => (52428800 < n /\ n <= 104857600)
        /\ (pc[r] \in {"insertVersion", "commit", "rollback"} \/ Inserted(r))
           => Backends(r) = {IF n <= 52428800 THEN "supabase" ELSE "mega"}
        /\ \A o \in bucket : o.by = r => "supabase" \in Backends(r)
        /\ \A o \in mega : o.by = r => "mega" \in Backends(r)
        /\ \A v \in versions : v.id = r =>
              IF n <= 52428800
              THEN /\ v.storage_path = <<"files", "/">> \o trim(q.fileName[1]) \o <<"/">>
                                         \o trim(q.version[1]) \o <<"/">>
                                         \o (IF q.file[1].name = <<>>
                                             THEN trim(q.fileName[1]) \o <<"-">> \o trim(q.version[1])
                                             ELSE q.file[1].name)
                   /\ v.metadata["storageProvider"] = <<"supabase">>
              ELSE /\ v.storage_path \in megaLinks(r)
                   /\ v.metadata["storageProvider"] = <<"mega">>

RoutingBoundaryWitness ==
    \E v \in versions :
        /\ v.file_size = 52428800
        /\ v.storage_path = <<"files", "/", "a", "/", "1", "/", "f">>
        /\ \E o \in bucket : o.key = <<"a", "/", "1", "/", "f">> /\ o.by = v.id
        /\ mega = {}

GetOrCreateRace ==
    /\ \A f1 \in file_metadata, f2 \in file_metadata :
           f1.file_name = f2.file_name => f1.id = f2.id
    /\ \A r \in Reqs :
           (Done(r) /\ hist[r].exit = "insertFileMetadata" /\ faults[r] = 0)
           => Status(r) \notin {500}

\* C10: a request whose credential is missing, unknown or inactive returns
\* 401 whatever its form fields are (unless a backend call of its own
\* fails), and 400 and 413 are returned only to requests with a valid
\* credential.
AuthenticationFirst ==
    \A r \in Reqs : Done(r) =>
        /\ (~CredentialValid(req[r]) /\ faults[r] = 0) => Status(r) = 401
        /\ Status(r) \in {400, 413} => CredentialValid(req[r])

LastUseBestEffort ==
    \A r \in Reqs :
        hist[r].lastUsed \in {"error", "throws"} =>
            /\ hist[r].exit # "auth"
            /\ loc[r].uploaderName = "gitlab-ci-production"

\* C14: when an upload of at most 50 MiB has returned 201, versions holds
\* a row for its (fileName, version) whose uploaded_by is the key_name of
\* the key it presented, that row had is_latest = TRUE when its
\* transaction committed, and the bucket holds an object at
\* fileName/version/originalFilename.
SuccessPostcondition ==
    \A r \in Reqs :
        (Done(r) /\ Status(r) = 201 /\ req[r].file[1].size <= 52428800) =>
            LET q == req[r]
                name == trim(q.fileName[1])
                version == trim(q.version[1])
                original == IF q.file[1].name = <<>> THEN name \o <<"-">> \o version
                            ELSE q.file[1].name
            IN /\ \E v \in versions :
                     /\ v.id = r /\ v.version = version
                     /\ \E f \in file_metadata : f.id = v.file_metadata_id /\ f.file_name = name
                     /\ \E k \in DOMAIN api_keys : /\ api_keys[k].key_value = Secret(q)
                                                    /\ v.uploaded_by = api_keys[k].key_name
               /\ hist[r].latestAtCommit
               /\ \E o \in bucket : o.key = name \o <<"/">> \o version \o <<"/">> \o original

SuccessPostconditionWitness ==
    \E r \in Reqs :
        /\ Done(r) /\ Status(r) = 201 /\ req[r].file[1].size = 1
        /\ hist[r].latestAtCommit
        /\ \E v \in versions : v.id = r /\ ~v.is_latest /\ v.uploaded_by = "gitlab-ci-production"
        /\ \E o \in bucket : o.by = r

\* C15: the downloadUrl of a 201 response is never null; when the version
\* was stored in MEGA it is the link MEGA returned, unchanged, for each
\* link format; when it was stored in the bucket it is the Supabase URL
\* without trailing slash + "/storage/v1/object/public/" + the bucket path.
DownloadReference ==
    \A r \in Reqs :
        (Done(r) /\ Status(r) = 201) =>
            /\ resp[r][1].downloadUrl # <<>>
            /\ \E v \in versions : v.id = r
            /\ \A v \in versions : v.id = r =>
                  IF v.metadata["storageProvider"] = <<"mega">>
                  THEN /\ resp[r][1].downloadUrl = loc[r].megaLink
                       /\ resp[r][1].downloadUrl = v.storage_path
                       /\ loc[r].megaLink \in megaLinks(r)
                  ELSE resp[r][1].downloadUrl =
                         <<"https://", "project.supabase.co", "/storage/v1/object/public", "/">>
                         \o v.storage_path

DownloadReferenceWitness ==
    \E r1 \in Reqs, r2 \in Reqs :
        /\ Done(r1) /\ Status(r1) = 201
        /\ resp[r1][1].downloadUrl = <<"https://", "mega.nz", "/#!", ToString(r1)>>
        /\ Done(r2) /\ Status(r2) = 201
        /\ resp[r2][1].downloadUrl =
              <<"https://", "project.supabase.co", "/storage/v1/object/public", "/",
                "files", "/", "a", "/", "2", "/", "f">>

\* C16: in every successful load of the home page, the downloadUrl of each
\* version equals the downloadUrl of the 201 response of the upload that
\* committed that version.
ReadWriteAgree ==
    \A l \in Loads :
        \A j \in 1..Len(l.files) :
            \A k \in 1..Len(l.files[j].versions) :
                LET e == l.files[j].versions[k] IN
                /\ Done(e.id) /\ Status(e.id) = 201
                /\ e.downloadUrl = resp[e.id][1].downloadUrl

ReadWriteAgreeWitness ==
    \E l \in Loads :
        \E j \in 1..Len(l.files) :
            \E k1, k2 \in 1..Len(l.files[j].versions) :
                LET e1 == l.files[j].versions[k1]
                    e2 == l.files[j].versions[k2]
                IN /\ e1.storagePath = <<"files", "/", "a", "/", "1", "/", "f">>
                   /\ e1.downloadUrl = resp[e1.id][1].downloadUrl
                   /\ e2.storagePath \in megaLinks(e2.id)
                   /\ e2.downloadUrl = resp[e2.id][1].downloadUrl

\* C17: a successful load of the home page, compared with the catalog it
\* read (no row was written since), has exactly one entry per file_metadata row (also for a file
\* without versions), entries by updated_at descending, and in each entry
\* exactly the versions of that file, by uploaded_at descending.
ListingOrder ==
    \A l \in Loads :
            LET files == l.files IN
            /\ Len(files) = Cardinality(file_metadata)
            /\ \A f \in file_metadata :
                   \E j \in 1..Len(files) :
                       /\ files[j].id = f.id /\ files[j].fileName = f.file_name
                       /\ files[j].updatedAt = f.updated_at
                       /\ Len(files[j].versions) = Cardinality(FileVersions(f.id))
                       /\ \A v \in FileVersions(f.id) :
                              \E k \in 1..Len(files[j].versions) :
                                  /\ files[j].versions[k].id = v.id
                                  /\ files[j].versions[k].version = v.version
                                  /\ files[j].versions[k].uploadedAt = v.uploaded_at
            /\ \A j1, j2 \in 1..Len(files) :
                   j1 < j2 => files[j1].updatedAt >= files[j2].updatedAt
            /\ \A j \in 1..Len(files) :
                   \A k1, k2 \in 1..Len(files[j].versions) :
                       k1 < k2 => files[j].versions[k1].uploadedAt >= files[j].versions[k2].uploadedAt

\* C18: a request with a valid credential returns 400 from the validation
\* block when the file is missing or empty, fileName or version is missing
\* or blank or has a character outside its class, or a non-blank metadata
\* is not JSON or is an array, a scalar or null; any other request with a
\* valid credential passes the validation block.
InputValidation ==
    \A r \in Reqs :
        (pc[r] # "idle" /\ CredentialValid(req[r])) =>
            IF Malformed(req[r])
            THEN Done(r) /\ Status(r) = 400 /\ hist[r].exit = "validate"
            ELSE hist[r].exit # "validate"

\* C18, amended: the same for requests whose payload is at most 100 MiB; a
\* larger payload with well-formed file, fileName and version is answered
\* 413 by the validation block, whatever its metadata.
InputValidationUpToCeiling ==
    \A r \in Reqs :
        (pc[r] # "idle" /\ CredentialValid(req[r])) =>
            IF req[r].file = None \/ req[r].file[1].size <= 104857600
            THEN IF Malformed(req[r])
                 THEN Done(r) /\ Status(r) = 400 /\ hist[r].exit = "validate"
                 ELSE hist[r].exit # "validate"
            ELSE Done(r) /\ Status(r) \in {400, 413} /\ hist[r].exit = "validate"
                 /\ (Status(r) = 413 <=> HasPair(req[r]))

InputValidationWitness ==
    \E r1 \in Reqs, r2 \in Reqs :
        /\ CredentialValid(req[r1]) /\ req[r1].metadata = Some(<<"[", "]">>)
        /\ req[r1].version = Some(<<"1", ".", "2">>)
        /\ Done(r1) /\ Status(r1) = 400
        /\ resp[r1][1].message = "metadata must be a JSON object"
        /\ CredentialValid(req[r2]) /\ req[r2].metadata = Some(<<"{", "}">>)
        /\ req[r2].fileName = Some(<<" ", "a", " ">>)
        /\ Done(r2) /\ Status(r2) = 201

\* C19: when an upload has returned from the storage step with an error,
\* neither the bucket nor the MEGA account holds an object it wrote.
FailedStoreLeavesNothing ==
    \A r \in Reqs :
        (Done(r) /\ hist[r].exit = "store") =>
            /\ \A o \in bucket \cup mega : o.by # r
            /\ hist[r].wrote = {}

\* C20: two successful loads of the home page with no catalog write between
\* them return the same files in the same order, each with the same
\* versions in the same order and the same field values.
IdempotentRead ==
    \A l1 \in Loads, l2 \in Loads : l1.files = l2.files

\* C21: a request reaches the storage step, and writes to a backend, only
\* after its fields passed validation, its credential was looked up and is
\* that of an active key, and its duplicate pre-check found no row; and it
\* reaches the versions insert only after exactly one storage write that
\* succeeded.
StageOrdering ==
    \A r \in Reqs :
        /\ (pc[r] \in {"store", "insertVersion", "commit", "rollback"}
              \/ hist[r].stores > 0 \/ hist[r].wrote # {})
            => /\ ~Malformed(req[r])
               /\ req[r].file[1].size <= MAX_FILE_SIZE_BYTES
               /\ hist[r].lookedUp /\ CredentialValid(req[r])
               /\ hist[r].prechecked
        /\ (pc[r] \in {"insertVersion", "commit", "rollback"}
              \/ hist[r].inserts > 0 \/ Inserted(r))
            => /\ hist[r].stores = 1 /\ ~hist[r].storeError
               /\ Cardinality(hist[r].wrote) = 1
               /\ hist[r].inserts = 0 =>
                    IF storageProvider(req[r]) = "supabase"
                    THEN \E o \in bucket : o.key = objectPath(req[r]) /\ o.by = r
                    ELSE \E o \in mega : o.by = r

\* a request with a metadata object went through all the stages to its 201
StageOrderingWitness ==
    \E r \in Reqs :
        /\ Done(r) /\ Status(r) = 201
        /\ req[r].metadata = Some(<<"{", "}">>)
        /\ hist[r].prechecked /\ hist[r].stores = 1 /\ hist[r].inserts = 1

\* C22: when the storage write of an upload fails, the upload ends with a
\* 500 response, it inserts no versions row and it issues no delete against
\* a backend.
StorageFailure ==
    \A r \in Reqs :
        hist[r].storeError
        => /\ pc[r] = "done" /\ Done(r) /\ Status(r) = 500
           /\ hist[r].inserts = 0 /\ ~Inserted(r)
           /\ \A v \in versions : v.id # r
           /\ hist[r].removes = 0 /\ hist[r].removed = {}

\* the bucket refused the object of an upload because another upload of the
\* same pair had written it, and that other upload went on
StorageFailureWitness ==
    \E r \in Reqs :
        /\ hist[r].storeError /\ Done(r) /\ Status(r) = 500
        /\ storageProvider(req[r]) = "supabase" /\ faults[r] = 0
        /\ \E o \in bucket : o.key = objectPath(req[r]) /\ o.by # r

\* C23: when the versions insert fails after a successful write to MEGA, no
\* delete is issued to either backend, the MEGA object stays with no versions
\* row of the upload referring to it, and the upload ends with its 500.
OverflowRollbackNoOp ==
    \A r \in Reqs :
        (hist[r].insertError # "" /\ storageProvider(req[r]) = "mega")
        => /\ pc[r] = "done" /\ Done(r)
           /\ resp[r] = internalError("Failed to create version record")
           /\ hist[r].removes = 0 /\ hist[r].removed = {}
           /\ \E o \in mega : o.by = r /\ o.name = originalFileName(req[r])
           /\ \A v \in versions : v.id # r /\ v.storage_path # loc[r].megaLink

\* an upload to MEGA lost the race for its (file, version) pair at the insert
OverflowRollbackNoOpWitness ==
    \E r \in Reqs :
        /\ hist[r].insertError = "unique" /\ Backends(r) = {"mega"}
        /\ Done(r) /\ Status(r) = 500
        /\ \E o \in mega : o.by = r

\* C24: when the versions insert fails and the compensating remove fails
\* too, with an error result or with an exception, the upload returns the
\* response it returns when the remove succeeds.
RollbackFailureNotSurfaced ==
    \A r \in Reqs :
        hist[r].removeOutcome # ""
        => /\ pc[r] = "done"
           /\ resp[r] = internalError("Failed to create version record")
           /\ \A o \in Reqs : hist[o].removeOutcome # "" => resp[o] = resp[r]

\* the remove of an upload threw and left the object in the bucket
RollbackFailureWitness ==
    \E r \in Reqs :
        /\ hist[r].removeOutcome = "throws" /\ Done(r)
        /\ \E o \in bucket : o.key = objectPath(req[r]) /\ o.by = r

NoRetry ==
    \A r \in Reqs :
        /\ hist[r].stores <= 1 /\ hist[r].inserts <= 1 /\ hist[r].removes <= 1
        /\ Cardinality(hist[r].wrote) <= 1 /\ Cardinality(hist[r].removed) <= 1
        /\ hist[r].storeError => pc[r] = "done"
        /\ hist[r].insertError # "" => pc[r] \in {"rollback", "done"}
        /\ hist[r].removeOutcome # "" => pc[r] = "done"

\* the insert of an upload failed and then its remove failed, and the upload
\* ended with one storage write, one insert and one remove issued
NoRetryWitness ==
    \E r \in Reqs :
        /\ hist[r].insertError = "unique" /\ hist[r].removeOutcome = "error"
        /\ hist[r].stores = 1 /\ hist[r].inserts = 1 /\ hist[r].removes = 1
        /\ Done(r) /\ Status(r) = 500

\* C27: a committed versions row is never removed, and no step changes a
\* column of it other than is_latest: version, storage_path, file_size,
\* file_type, uploaded_at, metadata, uploaded_by (and id, file_metadata_id)
\* stay as committed.
VersionsImmutable ==
    [][\A v \in versions :
          \E w \in versions' : w.id = v.id /\ [w EXCEPT !.is_latest = v.is_latest] = v]_vars

\* a row that was committed as the latest lost the flag to a later commit
\* and kept the columns its upload gave it
VersionsImmutableWitness ==
    \E v \in versions :
        /\ ~v.is_latest /\ hist[v.id].latestAtCommit
        /\ \E w \in versions : w.is_latest /\ w.file_metadata_id = v.file_metadata_id
        /\ v.version = trimmedVersion(req[v.id])
        /\ v.storage_path = storagePath(v.id)
        /\ v.file_size = req[v.id].file[1].size
        /\ v.uploaded_by = loc[v.id].uploaderName

\* C28: the commit of a version sets updated_at of its file_metadata row in
\* the commit step itself, and right after that step no other file_metadata
\* row has a later updated_at (so the file is the first of the listing,
\* which is ordered by updated_at descending); and a step in which an
\* upload fails leaves every updated_at as it was.
CommitBumpsArtifact ==
    [][\A r \in Reqs :
          /\ (pc[r] = "commit" /\ pc'[r] = "done")
             => \E a \in file_metadata' :
                    /\ a.id = tx[r][1].row.file_metadata_id
                    /\ a.updated_at = tx[r][1].row.uploaded_at
                    /\ \A f \in file_metadata' : f.updated_at <= a.updated_at
          /\ (resp[r] = None /\ resp'[r] # None /\ resp'[r][1].status # 201)
             => file_metadata' = file_metadata]_vars

\* C29: an upload whose request is aborted after its storage write and
\* before its versions row is committed commits no versions row, and when
\* its handler has ended the object it wrote is no longer in a backend.
CancellationRollsBack ==
    \A r \in Reqs :
        hist[r].abortedAt \in {"insertVersion", "commit"}
        => /\ \A v \in versions : v.id # r
           /\ pc[r] = "done" => /\ \A o \in bucket : o.by # r
                                /\ \A o \in mega : o.by # r

\* C30: provided every backend call returns or fails, every upload that
\* was received ends, in one response whose status is one of 201, 400, 401,
\* 409, 413 and 500 and which is never replaced; the upload to MEGA, which
\* waits for 'complete' or 'error', is no exception.
Termination ==
    /\ \A r \in Reqs : (pc[r] # "idle") ~> (pc[r] = "done" /\ Done(r))
    /\ [](\A r \in Reqs :
            /\ Done(r) <=> pc[r] = "done"
            /\ Done(r) => Status(r) \in {201, 400, 401, 409, 413, 500})
    /\ [][\A r \in Reqs : Done(r) => resp'[r] = resp[r]]_vars

\* an upload to MEGA ended with 201 and another ended with 500 when its
\* MEGA upload failed
TerminationWitness ==
    \E r, o \in Reqs :
        /\ Done(r) /\ Status(r) = 201 /\ Backends(r) = {"mega"}
        /\ Done(o) /\ Status(o) = 500 /\ storageProvider(req[o]) = "mega"
        /\ hist[o].storeError

\* C31: an upload whose versions insert has succeeded ends with 201 and
\* with no other response, and an upload ends with 201 only if its own
\* versions insert succeeded and its row is committed.
NoErrorAfterCommit ==
    \A r \in Reqs :
        /\ hist[r].order > 0
           => /\ pc[r] = "done" /\ Done(r) /\ Status(r) = 201
              /\ hist[r].insertError = "" /\ hist[r].removes = 0
        /\ tx[r] # None => /\ pc[r] = "commit" /\ ~Done(r)
                            /\ hist[r].inserts = 1 /\ hist[r].insertError = ""
        /\ (Done(r) /\ Status(r) = 201)
           => /\ hist[r].order > 0 /\ hist[r].inserts = 1 /\ hist[r].insertError = ""
              /\ \E v \in versions : v.id = r /\ v.version = trimmedVersion(req[r])

\* an upload ended with 201 after its insert while the upload of the same
\* pair that lost the race at the insert ended with 500
NoErrorAfterCommitWitness ==
    \E r, o \in Reqs :
        /\ Done(r) /\ Status(r) = 201 /\ hist[r].order > 0
        /\ Done(o) /\ Status(o) = 500 /\ hist[o].insertError = "unique"
        /\ SamePair(req[r], req[o])

\* C32: in every state, whatever the interleaving of uploads and rollbacks,
\* the object of every committed versions row stored in the bucket is in
\* the bucket, at the key name/version/filename of the row's upload.
\* Two uploads write to one key only if they name one (name, version) pair.
NoDanglingReference ==
    /\ \A v \in versions :
        startsWith(v.storage_path, STORAGE_BUCKET \o <<"/">>)
        => \E o \in bucket : /\ v.storage_path = STORAGE_BUCKET \o <<"/">> \o o.key
                              /\ o.key = objectPath(req[v.id])
                              /\ o.by = v.id
    /\ \A r, o \in Reqs :
        (r # o /\ SupabaseKeys(r) \cap SupabaseKeys(o) # {}) => SamePair(req[r], req[o])

\* an upload committed its row while another upload of the same (name,
\* version, filename) was refused by the bucket, and the object is there
NoDanglingReferenceWitness ==
    \E r, o \in Reqs :
        /\ r # o /\ req[r] = req[o]
        /\ Done(r) /\ Status(r) = 201 /\ Backends(r) = {"supabase"}
        /\ Done(o) /\ hist[o].storeError /\ faults[o] = 0
        /\ \E b \in bucket : b.key = objectPath(req[r]) /\ b.by = r

\* C33: when every upload that was received has ended and every remove
\* that was issued succeeded, every object in the bucket is the object of
\* exactly one committed versions row.
NoPrimaryOrphans ==
    ((\A r \in Reqs : pc[r] \in {"idle", "done"})
        /\ \A r \in Reqs : hist[r].removeOutcome \in {"", "ok"})
    => \A o \in bucket :
          Cardinality({v \in versions : v.storage_path = STORAGE_BUCKET \o <<"/">> \o o.key}) = 1

\* all uploads have ended: one committed and its object is in the bucket,
\* another failed at the insert and its remove deleted the object it wrote
NoPrimaryOrphansWitness ==
    /\ \A r \in Reqs : pc[r] = "done"
    /\ \E r, o \in Reqs :
        /\ Status(r) = 201 /\ Backends(r) = {"supabase"}
        /\ \E b \in bucket : b.by = r
        /\ hist[o].removeOutcome = "ok" /\ SupabaseKeys(o) # {}
        /\ \A b \in bucket : b.by # o

\* C34: an upload that finds an object at the key it would write ends at
\* that step with the 500 of the storage step, and the step leaves the
\* bucket, the versions table and the open inserts as they were and issues
\* no remove; the object an earlier failure left stays, no row refers to
\* it, and so each later upload of the same (name, version, filename) ends
\* the same way.
ExistingObjectRefused ==
    /\ [](/\ LeftObject \in bucket
           /\ \A v \in versions : v.storage_path # STORAGE_BUCKET \o <<"/">> \o LeftObject.key
           /\ \A r \in Reqs :
                (Done(r) /\ Accepted(req[r]) /\ faults[r] = 0
                    /\ storageProvider(req[r]) = "supabase"
                    /\ objectPath(req[r]) = LeftObject.key
                    /\ hist[r].prechecked)
                => /\ resp[r] = internalError("Failed to upload file to storage")
                   /\ hist[r].removes = 0 /\ hist[r].inserts = 0)
    /\ [][\A r \in Reqs :
            (pc[r] = "store" /\ pc'[r] # "store" /\ storageProvider(req[r]) = "supabase"
                /\ \E o \in bucket : o.key = objectPath(req[r]))
            => /\ resp'[r] = internalError("Failed to upload file to storage")
               /\ pc'[r] = "done"
               /\ bucket' = bucket /\ versions' = versions /\ tx' = tx
               /\ hist'[r].removes = 0 /\ hist'[r].inserts = 0]_vars

\* the upload was sent twice after the failure and was refused both times
ExistingObjectRefusedWitness ==
    \E r, o \in Reqs :
        /\ r < o /\ req[r] = req[o]
        /\ Done(r) /\ Status(r) = 500 /\ hist[r].storeError /\ faults[r] = 0
        /\ Done(o) /\ Status(o) = 500 /\ hist[o].storeError /\ faults[o] = 0
        /\ objectPath(req[r]) = LeftObject.key
        /\ bucket = {LeftObject}

\* C35: when an upload has created the file_metadata row of its file and
\* then fails at the storage step or at the insert, the row stays; while
\* the file has no versions, every successful load of the home page lists
\* it with an empty list of versions.
ArtifactNotCompensated ==
    \A r \in Reqs :
        (Done(r) /\ hist[r].exit \in {"store", "insertVersion"} /\ loc[r].fileMetadataId = r)
        => /\ Status(r) = 500
           /\ \E f \in file_metadata : f.id = r /\ f.file_name = trimmedFileName(req[r])
           /\ FileVersions(r) = {}
              => \A l \in Loads :
                    \E i \in 1..Len(l.files) :
                        /\ l.files[i].id = r
                        /\ l.files[i].fileName = trimmedFileName(req[r])
                        /\ l.files[i].versions = <<>>

\* the first upload of a file failed at the insert after it had created the
\* file, and the home page loaded since lists the file without versions
ArtifactNotCompensatedWitness ==
    \E r \in Reqs :
        /\ Done(r) /\ hist[r].exit = "insertVersion" /\ loc[r].fileMetadataId = r
        /\ FileVersions(r) = {}
        /\ \E l \in Loads : \E i \in 1..Len(l.files) :
                l.files[i].id = r /\ l.files[i].versions = <<>>

\* C36: in every successful load of the home page, for every file that has
\* versions, the version of the 'Latest' chip (the first of the list sorted
\* by uploaded_at) is the one version of the list whose isLatest is TRUE.
LatestMarkersAgree ==
    \A l \in Loads : \A i \in 1..Len(l.files) :
        hasVersions(l.files[i])
        => /\ latestVersion(l.files[i])[1].isLatest
           /\ \A k \in 2..Len(l.files[i].versions) : ~l.files[i].versions[k].isLatest

\* C37: a step of an upload to a file, whatever the upload's outcome,
\* leaves the file_metadata row (updated_at included) and every versions
\* row (is_latest included) of every other file as they were.
PerArtifactFrame ==
    [][\A r \in Reqs :
          (pc'[r] # pc[r] /\ HasPair(req'[r]))
          => \A f \in file_metadata :
                f.file_name # trimmedFileName(req'[r])
                => /\ f \in file_metadata'
                   /\ \A v \in versions : v.file_metadata_id = f.id => v \in versions']_vars

\* a version of one file was committed after a version of another file,
\* whose row is still the latest and whose file kept its updated_at
PerArtifactFrameWitness ==
    \E v, w \in versions :
        /\ v.file_metadata_id # w.file_metadata_id
        /\ hist[v.id].order < hist[w.id].order
        /\ v.is_latest /\ w.is_latest
        /\ \E f \in file_metadata : f.id = v.file_metadata_id /\ f.updated_at = v.uploaded_at

\* C38: in every committed versions row the metadata key storageProvider
\* names the backend the upload wrote to, 'supabase' exactly when the
\* storage_path is a bucket path and 'mega' exactly when it is the MEGA
\* link, and originalFileSize is the size of the payload, also when the
\* metadata of the request has values of its own for these keys.
ServerMetadataWins ==
    \A v \in versions :
        /\ v.metadata["storageProvider"] \in {<<"supabase">>, <<"mega">>}
        /\ v.metadata["storageProvider"] = <<"supabase">>
           <=> startsWith(v.storage_path, STORAGE_BUCKET \o <<"/">>)
        /\ v.metadata["storageProvider"] = <<"mega">>
           <=> startsWith(v.storage_path, <<"https://", "mega.nz">>)
        /\ Backends(v.id) = {v.metadata["storageProvider"][1]}
        /\ v.metadata["originalFileSize"] = <<ToString(req[v.id].file[1].size)>>

\* a payload above the object size limit was committed for a request whose
\* metadata gives storageProvider and originalFileSize itself
ServerMetadataWinsWitness ==
    \E v \in versions :
        /\ req[v.id].metadata # None
        /\ "storageProvider" \in JSONparse(req[v.id].metadata[1]).keys
        /\ "originalFileSize" \in JSONparse(req[v.id].metadata[1]).keys
        /\ v.metadata["storageProvider"] = <<"mega">>
        /\ v.file_size > SUPABASE_OBJECT_SIZE_LIMIT_BYTES
====
